---- MODULE Spec2Model ----
(***************************************************************************)
(* Coinsights: the resolution lifecycle of the Go backend                  *)
(* (ResolutionService, BlockchainService) and the ResolutionAttestation    *)
(* contract it writes to.                                                  *)
(*                                                                         *)
(* Numbers: float64 evidence metrics and scores are kept in thousandths    *)
(* (0.70 is 700); every comparison the code makes is between values that   *)
(* are exact multiples of 0.001, so the order is preserved.  Times are     *)
(* whole hours.  Strings are TLA+ strings, bytes are naturals.             *)
(***************************************************************************)
EXTENDS Integers, Sequences, FiniteSets, TLC

\* absent string or id
None == "none"
\* nil pointer to a struct, or a map entry that is not there
Nil == [ nil |-> TRUE ]

-----------------------------------------------------------------------------
(* Bounds of the model *)

\* service transactions submitted to the ledger, over all Attest calls
MaxTx == 2
\* Resolution records the store may hold, in the service specification
MaxResolutions == 1
\* ... in the verification specification
MaxVerified == 2
\* ... in the engine specification
MaxEngine == 1
\* entries of one recordBatch call
MaxBatch == 2
\* records on the ledger in the contract-only specification
MaxLedger == 3
\* last reading of the wall clock
MaxClock == 1
\* Resolution records the store may hold, in the scoring specification
MaxScored == 2
\* Resolutions, and their transactions, in the chain specification
MaxChain == 3
\* records on the ledger in the commitment specification
MaxStamped == 2

-----------------------------------------------------------------------------
(* Program constants *)

\* width of a bytes32 / [32]byte commitment
HashLen == 32

\* models.DefaultResolutionCriteria
DefaultResolutionCriteria ==
    [ MinPercentageDecrease    |-> 700,
      MinConfidence            |-> 850,
      MinWindowDays            |-> 7,
      RequirePositiveSentiment |-> FALSE ]

-----------------------------------------------------------------------------
(* Input universes *)

\* exchange and category names; "a"+"bc" and "ab"+"c" pack to the same bytes
Pairs == { <<"a", "bc">>, <<"ab", "c">> }

IssueIds == { "i1", "i2" }

\* the evidence commitments third parties write directly
Attestor == "0xService"
Stranger == "0xOther"

-----------------------------------------------------------------------------
(* models.ResolutionEvidence and the Confidence Scorer *)

Evidence(before, after, pct, sentiment, sources, start, end) ==
    [ ComplaintsBefore   |-> before,
      ComplaintsAfter    |-> after,
      PercentageDecrease |-> pct,
      SentimentShift     |-> sentiment,
      DataSources        |-> sources,
      MeasurementStart   |-> start,
      MeasurementEnd     |-> end ]

OneSource == << "youtube" >>
ThreeSources == << "youtube", "google", "reddit" >>

\* the demo workflow's evidence: an 85.3% drop measured over 7 days
GoodEvidence == Evidence(150, 22, 853, 300, ThreeSources, 0, 168)
\* a 20% drop
WeakEvidence == Evidence(150, 120, 200, 0, OneSource, 0, 168)

\* evidence the service is given in the full specification
EvidencePool == << GoodEvidence, WeakEvidence >>

\* evidence the Resolution Engine is given in the engine specification
EvidenceGrid ==
    { Evidence(150, 22, p, s, src, w[1], w[2]) :
        p \in { 699, 700, 853, 900 }, s \in { 0, 300 },
        src \in { OneSource, ThreeSources },
        w \in { <<0, 167>>, <<0, 168>>, <<12, 0>>, <<48, 0>> } }
    \cup { Evidence(-1, 22, 853, 300, ThreeSources, 0, 168),
           Evidence(150, -1, 853, 300, ThreeSources, 0, 168) }

\* Go's int(x) of a quotient: truncation toward zero
TruncDiv(a, b) == IF a >= 0 THEN a \div b ELSE -((-a) \div b)

\* int(evidence.MeasurementEnd.Sub(evidence.MeasurementStart).Hours() / 24)
ResolutionWindow(e) == TruncDiv(e.MeasurementEnd - e.MeasurementStart, 24)

Min(a, b) == IF a < b THEN a ELSE b

\* calculateConfidence without the bonus for multiple data sources
calculateConfidenceNoSources(e) ==
    LET base  == IF e.PercentageDecrease >= 900 THEN 950
                 ELSE IF e.PercentageDecrease >= 700 THEN 850
                 ELSE IF e.PercentageDecrease >= 500 THEN 700
                 ELSE 500
        sent  == IF e.SentimentShift > 200 THEN 50 ELSE 0
    IN  Min(base + sent, 1000)

\* calculateConfidence without the cap at 1.0
calculateConfidenceUncapped(e) ==
    LET base  == IF e.PercentageDecrease >= 900 THEN 950
                 ELSE IF e.PercentageDecrease >= 700 THEN 850
                 ELSE IF e.PercentageDecrease >= 500 THEN 700
                 ELSE 500
        sent  == IF e.SentimentShift > 200 THEN 50 ELSE 0
        multi == IF Len(e.DataSources) >= 3 THEN 30 ELSE 0
    IN  base + sent + multi

calculateConfidence(e) ==
    LET base  == IF e.PercentageDecrease >= 900 THEN 950
                 ELSE IF e.PercentageDecrease >= 700 THEN 850
                 ELSE IF e.PercentageDecrease >= 500 THEN 700
                 ELSE 500
        sent  == IF e.SentimentShift > 200 THEN 50 ELSE 0
        multi == IF Len(e.DataSources) >= 3 THEN 30 ELSE 0
    IN  Min(base + sent + multi, 1000)

\* meetsResolutionCriteria with the percentage test turned strict
meetsResolutionCriteriaStrict(r, criteria) ==
    /\ ~ (r.Evidence.PercentageDecrease <= criteria.MinPercentageDecrease)
    /\ ~ (r.Confidence < criteria.MinConfidence)
    /\ ~ (r.ResolutionWindow < criteria.MinWindowDays)
    /\ ~ (criteria.RequirePositiveSentiment /\ r.Evidence.SentimentShift <= 0)

meetsResolutionCriteria(r, criteria) ==
    /\ ~ (r.Evidence.PercentageDecrease < criteria.MinPercentageDecrease)
    /\ ~ (r.Confidence < criteria.MinConfidence)
    /\ ~ (r.ResolutionWindow < criteria.MinWindowDays)
    /\ ~ (criteria.RequirePositiveSentiment /\ r.Evidence.SentimentShift <= 0)

-----------------------------------------------------------------------------
(* Hashing: BlockchainService.HashEvidence / HashEvidenceBytes *)

ZeroHash == [ j \in 1..HashLen |-> 0 ]

\* json.Marshal of the struct: the fields in declaration order
MarshalEvidence(e) ==
    << e.ComplaintsBefore, e.ComplaintsAfter, e.PercentageDecrease,
       e.SentimentShift, e.DataSources, e.MeasurementStart, e.MeasurementEnd >>

\* the orders in which three data sources can be listed
SourceOrders ==
    << << "youtube", "google", "reddit" >>, << "youtube", "reddit", "google" >>,
       << "google", "youtube", "reddit" >>, << "google", "reddit", "youtube" >>,
       << "reddit", "youtube", "google" >>, << "reddit", "google", "youtube" >> >>

\* measurement windows of a request body; 0 is the zero time.Time an absent
\* field decodes to
HashWindows == << << 0, 0 >>, << 24, 192 >>, << 24, 191 >> >>

HashPcts == << 853, 200, 700, 900, 0, 500 >>

\* the Evidence posted to the hash endpoint
HashGrid ==
    [ i \in 1..(Len(HashPcts) * Len(SourceOrders) * Len(HashWindows)) |->
        LET p == ((i - 1) % Len(HashPcts)) + 1
            o == (((i - 1) \div Len(HashPcts)) % Len(SourceOrders)) + 1
            w == ((i - 1) \div (Len(HashPcts) * Len(SourceOrders))) + 1
        IN  Evidence(150, 22, HashPcts[p], 300, SourceOrders[o],
                     HashWindows[w][1], HashWindows[w][2]) ]

\* every Evidence that is ever hashed
HashedEvidence == EvidencePool \o HashGrid

\* the serialisations that are ever hashed, in a fixed enumeration
Messages == [ i \in 1..Len(HashedEvidence) |-> MarshalEvidence(HashedEvidence[i]) ]

\* Keccak-256, taken collision free: the k-th message has the digest of bytes k
Keccak256(msg) ==
    LET k == CHOOSE i \in 1..Len(Messages) : Messages[i] = msg
    IN  [ j \in 1..HashLen |-> k ]

HashEvidenceBytes(e) == Keccak256(MarshalEvidence(e))

\* "0x" + hex.EncodeToString(b): a byte stands for its two hex digits
HexEncode(b) == << "0x" >> \o b

\* hex.DecodeString(strings.TrimPrefix(s, "0x"))
HexDecode(s) == IF Len(s) > 0 /\ s[1] = "0x" THEN Tail(s) ELSE s

\* var hash32 [32]byte; copy(hash32[:], b): zero padded or truncated
Copy32(b) == [ j \in 1..HashLen |-> IF j <= Len(b) THEN b[j] ELSE 0 ]

HashEvidence(e) == HexEncode(HashEvidenceBytes(e))

-----------------------------------------------------------------------------
(* State *)

VARIABLES
    issues,             \* rs.issues: id -> Issue, None where the map has no entry
    resolutions,        \* rs.resolutions: id -> Resolution
    blockchain,         \* rs.blockchain != nil
    mu,                 \* rs.mu: None, or the AttestResolution call holding it
    mempool,            \* transactions sent and not yet mined, in nonce order
    receipts,           \* transaction hash -> receipt
    attestations,       \* contract: mapping(uint256 => Attestation)
    attestationCount,   \* contract: uint256
    latestHashByIssue,  \* contract: mapping(bytes32 => bytes32)
    events,             \* contract: the event log
    blockNumber,        \* block.number of the last block
    now,                \* last reading of the clock
    ret,                \* what the last Attest or Verify call returned
    recordOf            \* history: ledger id -> the Resolution and transaction
                        \* that wrote the record (None, 0: a third party)

ledgerVars == << attestations, attestationCount, latestHashByIssue, events,
                 blockNumber, recordOf >>
serviceVars == << issues, resolutions, blockchain, mu, mempool, receipts, ret >>
vars == << issues, resolutions, blockchain, mu, mempool, receipts, attestations,
           attestationCount, latestHashByIssue, events, blockNumber, now, ret,
           recordOf >>

NoRet == [ op |-> None ]

-----------------------------------------------------------------------------
(* The ResolutionAttestation contract *)

Ledger ==
    [ attestations      |-> attestations,
      attestationCount  |-> attestationCount,
      latestHashByIssue |-> latestHashByIssue,
      events            |-> events ]

\* keccak256(abi.encodePacked(exchange, issueCategory)): the packed encoding
\* of two strings is their concatenation; the hash of it is collision free
IssueKey(exchange, issueCategory) == exchange \o issueCategory

\* a Solidity mapping reads zero where nothing was written
LatestHash(latest, issueKey) ==
    IF issueKey \in DOMAIN latest THEN latest[issueKey] ELSE ZeroHash

recordResolution(L, exchange, issueCategory, evidenceHash, sender, ts, bn) ==
    LET issueKey      == IssueKey(exchange, issueCategory)
        previousHash  == LatestHash(L.latestHashByIssue, issueKey)
        attestationId == L.attestationCount
    IN  [ attestations |->
              (attestationId :> [ evidenceHash  |-> evidenceHash,
                                  previousHash  |-> previousHash,
                                  timestamp     |-> ts,
                                  blockNumber   |-> bn,
                                  exchange      |-> exchange,
                                  issueCategory |-> issueCategory,
                                  attestor      |-> sender ]) @@ L.attestations,
          latestHashByIssue |-> (issueKey :> evidenceHash) @@ L.latestHashByIssue,
          attestationCount |-> L.attestationCount + 1,
          events |-> Append(L.events,
                            [ name          |-> "ResolutionRecorded",
                              attestationId |-> attestationId,
                              exchange      |-> exchange,
                              issueCategory |-> issueCategory,
                              evidenceHash  |-> evidenceHash,
                              previousHash  |-> previousHash,
                              timestamp     |-> ts,
                              attestor      |-> sender ]) ]

\* the loop of recordBatch from entry i on
RECURSIVE batchLoop(_, _, _, _, _, _, _, _)
batchLoop(L, i, exchanges, categories, evidenceHashes, sender, ts, bn) ==
    IF i > Len(exchanges) THEN L
    ELSE LET issueKey     == IssueKey(exchanges[i], categories[i])
             previousHash == LatestHash(L.latestHashByIssue, issueKey)
             L2 == [ L EXCEPT
                       !.attestations =
                           (L.attestationCount :>
                               [ evidenceHash  |-> evidenceHashes[i],
                                 previousHash  |-> previousHash,
                                 timestamp     |-> ts,
                                 blockNumber   |-> bn,
                                 exchange      |-> exchanges[i],
                                 issueCategory |-> categories[i],
                                 attestor      |-> sender ]) @@ L.attestations,
                       !.latestHashByIssue =
                           (issueKey :> evidenceHashes[i]) @@ L.latestHashByIssue,
                       !.attestationCount = L.attestationCount + 1 ]
         IN  batchLoop(L2, i + 1, exchanges, categories, evidenceHashes,
                       sender, ts, bn)

\* the two require()s of recordBatch
batchAccepted(exchanges, categories, evidenceHashes) ==
    /\ Len(exchanges) = Len(categories)
    /\ Len(categories) = Len(evidenceHashes)
    /\ Len(exchanges) > 0

recordBatch(L, merkleRoot, exchanges, categories, evidenceHashes, sender, ts, bn) ==
    LET startId == L.attestationCount
        L2 == batchLoop(L, 1, exchanges, categories, evidenceHashes, sender, ts, bn)
        endId == L2.attestationCount - 1
    IN  [ L2 EXCEPT !.events =
              Append(L2.events, [ name       |-> "BatchRecorded",
                                  startId    |-> startId,
                                  endId      |-> endId,
                                  merkleRoot |-> merkleRoot,
                                  timestamp  |-> ts ]) ]

\* verifyHash with the scan started one record late
verifyHashFromOne(L, evidenceHash) ==
    LET hits == { i \in 1..(L.attestationCount - 1) :
                    L.attestations[i].evidenceHash = evidenceHash }
    IN  IF hits = {} THEN [ exists |-> FALSE, attestationId |-> 0 ]
        ELSE [ exists |-> TRUE,
               attestationId |-> CHOOSE i \in hits : \A k \in hits : i <= k ]

\* verifyHash: the first id whose record carries the hash
verifyHash(L, evidenceHash) ==
    LET hits == { i \in 0..(L.attestationCount - 1) :
                    L.attestations[i].evidenceHash = evidenceHash }
    IN  IF hits = {} THEN [ exists |-> FALSE, attestationId |-> 0 ]
        ELSE [ exists |-> TRUE,
               attestationId |-> CHOOSE i \in hits : \A k \in hits : i <= k ]

\* getAttestation without its require
getAttestationNeverReverts(L, attestationId) == FALSE

\* getAttestation: require(attestationId < attestationCount)
getAttestationReverts(L, attestationId) == ~ (attestationId < L.attestationCount)

getLatestHash(L, exchange, issueCategory) ==
    LatestHash(L.latestHashByIssue, IssueKey(exchange, issueCategory))

\* the contract's storage after a call returned L2
SetLedger(L2) ==
    /\ attestations' = L2.attestations
    /\ attestationCount' = L2.attestationCount
    /\ latestHashByIssue' = L2.latestHashByIssue
    /\ events' = L2.events

\* time.Now() / block.timestamp: a reading no earlier than the last one
Clock == now..MaxClock

\* commitments a third party submits: any bytes32
Digest(k) == [ j \in 1..HashLen |-> k ]
HashInputs == { Digest(1), Digest(2) }

LedgerPairs == Pairs \cup { << "a", "c" >> }

\* a third party calls recordResolution
ExternalRecordResolution(pair, h) ==
    \E ts \in Clock :
        /\ SetLedger(recordResolution(Ledger, pair[1], pair[2], h, Stranger,
                                      ts, blockNumber + 1))
        /\ recordOf' = (attestationCount :> [ rid |-> None, tx |-> 0 ]) @@ recordOf
        /\ blockNumber' = blockNumber + 1
        /\ now' = ts
        /\ ret' = NoRet
        /\ UNCHANGED << issues, resolutions, blockchain, mu, mempool, receipts >>

\* a third party calls recordBatch; a failed require reverts the call
ExternalRecordBatch(exchanges, categories, evidenceHashes) ==
    \E ts \in Clock :
        /\ batchAccepted(exchanges, categories, evidenceHashes)
        /\ LET L2 == recordBatch(Ledger, Digest(9), exchanges, categories,
                                 evidenceHashes, Stranger, ts, blockNumber + 1)
           IN  /\ SetLedger(L2)
               /\ recordOf' = [ i \in attestationCount..(L2.attestationCount - 1)
                                  |-> [ rid |-> None, tx |-> 0 ] ] @@ recordOf
        /\ blockNumber' = blockNumber + 1
        /\ now' = ts
        /\ ret' = NoRet
        /\ UNCHANGED << issues, resolutions, blockchain, mu, mempool, receipts >>

-----------------------------------------------------------------------------
(* ResolutionService: the Issue Registry *)

IssueStatuses == { "active", "investigating", "resolved", "verified" }

\* the ids generateID() gives to the Resolutions, in the order of creation
ResolutionIdSeq == << "r1", "r2", "r3", "r4" >>

\* the ids of the Resolution records in the store
Stored == DOMAIN resolutions

\* generateID(): 16 random bytes, an id not in use
FreshIssueId == CHOOSE id \in IssueIds : issues[id] = Nil

\* the lock is free: no AttestResolution call is inside its critical section
Unlocked == mu = Nil

CreateIssue(id, pair, count) ==
    /\ Unlocked
    /\ id = "" => \E k \in IssueIds : issues[k] = Nil
    /\ \E t1 \in Clock : \E t2 \in t1..MaxClock :
         LET key == IF id = "" THEN FreshIssueId ELSE id
         IN  /\ issues' = [ issues EXCEPT ![key] =
                              [ ID             |-> key,
                                Exchange       |-> pair[1],
                                Category       |-> pair[2],
                                ComplaintCount |-> count,
                                Status         |-> "active",
                                Resolution     |-> None,
                                Attestation    |-> Nil,
                                FirstDetected  |-> t1,
                                LastUpdated    |-> t2 ] ]
             /\ now' = t2
    /\ ret' = NoRet
    /\ UNCHANGED << resolutions, blockchain, mu, mempool, receipts, ledgerVars >>

\* the merge of UpdateIssue: only non-zero fields of the update are taken
mergeIssue(issue, count, status, t) ==
    [ issue EXCEPT
        !.ComplaintCount = IF count > 0 THEN count ELSE @,
        !.Status         = IF status # "" THEN status ELSE @,
        !.LastUpdated    = t ]

UpdateIssue(id, count, status) ==
    /\ Unlocked
    /\ IF issues[id] = Nil
       THEN UNCHANGED << issues, now >>
       ELSE \E t \in Clock :
              /\ issues' = [ issues EXCEPT ![id] = mergeIssue(@, count, status, t) ]
              /\ now' = t
    /\ ret' = NoRet
    /\ UNCHANGED << resolutions, blockchain, mu, mempool, receipts, ledgerVars >>

-----------------------------------------------------------------------------
(* ResolutionService: the Resolution Engine *)

\* the Resolution CreateResolution builds, verified at tv if it meets the criteria
newResolution(rid, issue, e, tv) ==
    LET r == [ ID               |-> rid,
               Exchange         |-> issue.Exchange,
               IssueCategory    |-> issue.Category,
               Evidence         |-> e,
               Confidence       |-> calculateConfidence(e),
               ResolutionWindow |-> ResolutionWindow(e),
               Status           |-> "pending",
               VerifiedAt       |-> << >>,
               Attestation      |-> Nil ]
    IN  IF meetsResolutionCriteria(r, DefaultResolutionCriteria)
        THEN [ r EXCEPT !.Status = "verified", !.VerifiedAt = << tv >> ]
        ELSE r

\* the Issue after CreateResolution linked the Resolution rid to it
resolveIssue(issue, rid, t) ==
    [ issue EXCEPT !.Status = "resolved", !.Resolution = rid, !.LastUpdated = t ]

CreateResolution(issueID, e) ==
    /\ Unlocked
    /\ IF issues[issueID] = Nil
       THEN UNCHANGED << issues, resolutions, now >>
       ELSE \E tv \in Clock : \E tu \in tv..MaxClock :
              LET rid == ResolutionIdSeq[Cardinality(Stored) + 1]
              IN  /\ resolutions' =
                         (rid :> newResolution(rid, issues[issueID], e, tv))
                             @@ resolutions
                  /\ issues' = [ issues EXCEPT ![issueID] = resolveIssue(@, rid, tu) ]
                  /\ now' = tu
    /\ ret' = NoRet
    /\ UNCHANGED << blockchain, mu, mempool, receipts, ledgerVars >>

-----------------------------------------------------------------------------
(* BlockchainService.RecordAttestation and ResolutionService.AttestResolution *)

\* transactions the service has sent so far
txCount == Len(mempool) + Cardinality(DOMAIN receipts)

AttestReturn(rid, err, att) ==
    [ op |-> "Attest", rid |-> rid, err |-> err, att |-> att ]

\* the models.Attestation RecordAttestation builds from the receipt;
\* PreviousHash is not among the fields it sets
buildAttestation(tx, receipt) ==
    [ ID              |-> receipt.attestationId,
      TransactionHash |-> tx,
      BlockNumber     |-> receipt.BlockNumber,
      BlockTimestamp  |-> receipt.Time,
      EvidenceHash    |-> HexEncode(receipt.evidenceHash),
      PreviousHash    |-> << >>,      \* never assigned: the empty string
      Attestor        |-> Attestor,
      Verified        |-> TRUE ]

\* the lines of AttestResolution after RecordAttestation returned att
attachAttestation(R, rid, att) ==
    [ R EXCEPT ![rid] = [ @ EXCEPT !.Attestation = att, !.Status = "on_chain" ] ]

\* the loop over rs.issues: the Issue whose Resolution is rid turns verified
propagateAttestation(I, rid, att) ==
    [ id \in DOMAIN I |->
        IF I[id] # Nil /\ I[id].Resolution = rid
        THEN [ I[id] EXCEPT !.Attestation = att, !.Status = "verified" ]
        ELSE I[id] ]

\* "Check if already attested"
alreadyAttestedNever(R, rid) == FALSE

alreadyAttested(R, rid) == R[rid].Attestation # Nil

\* if receipt.Status == 0: transaction reverted
revertedIgnored(receipt) == FALSE

reverted(receipt) == receipt.Status = 0

\* AttestResolution up to the wait for the receipt.  rpc is the outcome of
\* PendingNonceAt, SuggestGasPrice and SendTransaction taken together.
AttestResolution(rid, rpc) ==
    /\ Unlocked
    /\ UNCHANGED << issues, resolutions, blockchain, receipts, ledgerVars, now >>
    /\ IF rid \notin Stored
       THEN /\ ret' = AttestReturn(rid, "resolution not found", Nil)
            /\ UNCHANGED << mu, mempool >>
       ELSE IF alreadyAttested(resolutions, rid)
       THEN /\ ret' = AttestReturn(rid, None, resolutions[rid].Attestation)
            /\ UNCHANGED << mu, mempool >>
       ELSE IF ~ blockchain
       THEN /\ ret' = AttestReturn(rid, "blockchain service not configured", Nil)
            /\ UNCHANGED << mu, mempool >>
       ELSE IF ~ rpc
       THEN /\ ret' = AttestReturn(rid, "failed to send transaction", Nil)
            /\ UNCHANGED << mu, mempool >>
       ELSE /\ LET tx == txCount + 1
               IN  /\ mempool' = Append(mempool,
                         [ hash          |-> tx,
                           exchange      |-> resolutions[rid].Exchange,
                           issueCategory |-> resolutions[rid].IssueCategory,
                           evidenceHash  |-> HashEvidenceBytes(resolutions[rid].Evidence),
                           rid           |-> rid ])
                   /\ mu' = [ rid |-> rid, tx |-> tx ]
            /\ ret' = NoRet

\* a wait without the ctx.Done() and timeout cases of the select
AttestAbortNever(err) == FALSE

\* waitForReceipt gives up: ctx.Done() or the two-minute timeout is selected
AttestAbort(err) ==
    /\ mu # Nil
    /\ ret' = AttestReturn(mu.rid, err, Nil)
    /\ mu' = Nil
    /\ UNCHANGED << issues, resolutions, blockchain, mempool, receipts,
                    ledgerVars, now >>

\* waitForReceipt finds the receipt; blockOk is the outcome of BlockByNumber
AttestComplete(blockOk) ==
    /\ mu # Nil
    /\ mu.tx \in DOMAIN receipts
    /\ mu' = Nil
    /\ UNCHANGED << blockchain, mempool, receipts, ledgerVars, now >>
    /\ LET receipt == receipts[mu.tx]
       IN  IF reverted(receipt)
           THEN /\ ret' = AttestReturn(mu.rid, "transaction reverted", Nil)
                /\ UNCHANGED << issues, resolutions >>
           ELSE IF ~ blockOk
           THEN /\ ret' = AttestReturn(mu.rid, "failed to get block", Nil)
                /\ UNCHANGED << issues, resolutions >>
           ELSE LET att == buildAttestation(mu.tx, receipt)
                IN  /\ resolutions' = attachAttestation(resolutions, mu.rid, att)
                    /\ issues' = propagateAttestation(issues, mu.rid, att)
                    /\ ret' = AttestReturn(mu.rid, None, att)

\* the chain mines the service's next transaction; it may run out of gas
MineTx(ok) ==
    /\ mempool # << >>
    /\ LET tx == Head(mempool)
       IN  \E ts \in Clock :
             /\ mempool' = Tail(mempool)
             /\ blockNumber' = blockNumber + 1
             /\ now' = ts
             /\ receipts' = (tx.hash :>
                    [ Status        |-> IF ok THEN 1 ELSE 0,
                      BlockNumber   |-> blockNumber + 1,
                      Time          |-> ts,
                      attestationId |-> IF ok THEN attestationCount ELSE 0,
                      evidenceHash  |-> tx.evidenceHash ]) @@ receipts
             /\ IF ok
                THEN /\ SetLedger(recordResolution(Ledger, tx.exchange,
                            tx.issueCategory, tx.evidenceHash, Attestor, ts,
                            blockNumber + 1))
                     /\ recordOf' = (attestationCount :> [ rid |-> tx.rid, tx |-> tx.hash ])
                                     @@ recordOf
                ELSE UNCHANGED << attestations, attestationCount,
                                  latestHashByIssue, events, recordOf >>
    /\ ret' = NoRet
    /\ UNCHANGED << issues, resolutions, blockchain, mu >>

-----------------------------------------------------------------------------
(* Verification *)

\* GetAttestationByID: the models.Attestation read back from the contract
GetAttestationByID(L, attestationId) ==
    LET a == L.attestations[attestationId]
    IN  [ ID              |-> attestationId,
          TransactionHash |-> "",
          BlockNumber     |-> a.blockNumber,
          BlockTimestamp  |-> a.timestamp,
          EvidenceHash    |-> HexEncode(a.evidenceHash),
          PreviousHash    |-> HexEncode(a.previousHash),
          Attestor        |-> a.attestor,
          Verified        |-> TRUE ]

VerifyReturn(rid, hash, err, resp) ==
    [ op |-> "Verify", rid |-> rid, hash |-> hash, err |-> err, resp |-> resp ]

\* BlockchainService.VerifyAttestation; callOk and getOk are the outcomes of
\* the two contract calls
VerifyAttestation(L, rid, evidenceHash, callOk, getOk) ==
    LET hash32 == Copy32(HexDecode(evidenceHash))
        found  == verifyHash(L, hash32)
    IN  IF ~ callOk
        THEN VerifyReturn(rid, evidenceHash, "contract call failed", Nil)
        ELSE VerifyReturn(rid, evidenceHash, None,
               [ OnChain        |-> found.exists,
                 Verified       |-> found.exists,
                 HashMatch      |-> found.exists,
                 Attestation    |-> IF found.exists /\ getOk
                                    THEN GetAttestationByID(L, found.attestationId)
                                    ELSE Nil,
                 TimestampValid |-> found.exists /\ getOk ])

\* GetResolution takes the read lock; the rest runs without it
VerifyResolution(rid, callOk, getOk) ==
    /\ Unlocked
    /\ ret' = IF rid \notin Stored
              THEN VerifyReturn(rid, << >>, "resolution not found", Nil)
              ELSE IF ~ blockchain
              THEN VerifyReturn(rid, << >>, "blockchain service not configured", Nil)
              ELSE VerifyAttestation(Ledger, rid,
                       HashEvidence(resolutions[rid].Evidence), callOk, getOk)
    /\ UNCHANGED << issues, resolutions, blockchain, mu, mempool, receipts,
                    ledgerVars, now >>

VerifyByHash(evidenceHash, callOk, getOk) ==
    /\ ret' = IF ~ blockchain
              THEN VerifyReturn(None, evidenceHash, "blockchain service not configured", Nil)
              ELSE VerifyAttestation(Ledger, None, evidenceHash, callOk, getOk)
    /\ UNCHANGED << issues, resolutions, blockchain, mu, mempool, receipts,
                    ledgerVars, now >>

\* the Evidence of a stored Resolution is overwritten through the pointer
\* GetResolution hands out
MutateEvidence(rid, e) ==
    /\ rid \in Stored
    /\ resolutions[rid].Evidence # e
    /\ resolutions' = [ resolutions EXCEPT ![rid].Evidence = e ]
    /\ ret' = NoRet
    /\ UNCHANGED << issues, blockchain, mu, mempool, receipts, ledgerVars, now >>

-----------------------------------------------------------------------------
(* Specifications *)

\* the service and the contract after construction, the clock reading t
InitAt(t) ==
    /\ issues = [ id \in IssueIds |-> Nil ]
    /\ resolutions = << >>
    /\ blockchain \in BOOLEAN
    /\ mu = Nil
    /\ mempool = << >>
    /\ receipts = << >>
    /\ attestations = << >>
    /\ attestationCount = 0
    /\ latestHashByIssue = << >>
    /\ events = << >>
    /\ blockNumber = 0
    /\ now = t
    /\ ret = NoRet
    /\ recordOf = << >>

\* runs short enough that every reading of the clock is the same
Init == InitAt(MaxClock)

ResolutionIds(n) == { ResolutionIdSeq[k] : k \in 1..n }

\* AttestResolution, MaxTx transactions at most
AttestCalls(n) ==
    \E rid \in ResolutionIds(n), rpc \in BOOLEAN :
        /\ rpc => txCount < MaxTx
        /\ AttestResolution(rid, rpc)

NextAttest(n) ==
    \/ AttestCalls(n)
    \/ \E err \in { "context canceled", "timeout waiting for transaction receipt" } :
         AttestAbort(err)
    \/ \E blockOk \in BOOLEAN : AttestComplete(blockOk)
    \/ \E ok \in BOOLEAN : MineTx(ok)

\* the lifecycle of one Issue: tracked, updated, resolved, attested
Next ==
    \/ \E pair \in Pairs : CreateIssue("i1", pair, 1)
    \/ \E st \in { "investigating", "verified" } : UpdateIssue("i1", 0, st)
    \/ /\ Cardinality(Stored) < MaxResolutions
       /\ \E i \in 1..Len(EvidencePool) : CreateResolution("i1", EvidencePool[i])
    \/ NextAttest(MaxResolutions)

Spec == Init /\ [][Next]_vars

\* the service with verification by resolution id, and with the Evidence of a
\* stored Resolution open to change
NextVerify ==
    \/ CreateIssue("i1", << "a", "bc" >>, 1)
    \/ /\ Cardinality(Stored) < MaxVerified
       /\ \E i \in 1..Len(EvidencePool) : CreateResolution("i1", EvidencePool[i])
    \/ NextAttest(MaxVerified)
    \/ \E rid \in ResolutionIds(MaxVerified), callOk \in BOOLEAN, getOk \in BOOLEAN :
         VerifyResolution(rid, callOk, getOk)
    \/ \E rid \in ResolutionIds(MaxVerified), i \in 1..Len(EvidencePool) :
         MutateEvidence(rid, EvidencePool[i])

SpecVerify == Init /\ [][NextVerify]_vars

CountInputs == { 1, 2 }
UpdateCounts == { 0, 1 }
UpdateStatuses == { "", "investigating", "verified" }

\* the Issue Registry and the Resolution Engine, the clock running
NextEngine ==
    \/ \E id \in { "i1", "" }, c \in CountInputs : CreateIssue(id, << "a", "bc" >>, c)
    \/ \E c \in UpdateCounts, st \in UpdateStatuses : UpdateIssue("i1", c, st)
    \/ /\ Cardinality(Stored) < MaxEngine
       /\ \E id \in IssueIds, e \in EvidenceGrid : CreateResolution(id, e)

SpecEngine == InitAt(0) /\ [][NextEngine]_vars

\* the contract alone, written to by anyone
NextLedger ==
    \/ /\ attestationCount < MaxLedger
       /\ \E pair \in LedgerPairs, h \in HashInputs : ExternalRecordResolution(pair, h)
    \/ \E n \in 0..MaxBatch : \E entries \in [ 1..n -> LedgerPairs \X HashInputs ] :
         /\ attestationCount + n <= MaxLedger
         /\ ExternalRecordBatch([ i \in 1..n |-> entries[i][1][1] ],
                                [ i \in 1..n |-> entries[i][1][2] ],
                                [ i \in 1..n |-> entries[i][2] ])

SpecLedger == Init /\ [][NextLedger]_vars

-----------------------------------------------------------------------------
(* The attestation of a Resolution *)

\* the ledger records the Attest calls on rid have written
RecordsOf(rid) == { i \in DOMAIN recordOf : recordOf[i].rid = rid }

\* the ledger records the transaction tx has written
WrittenBy(tx) == { i \in DOMAIN recordOf : recordOf[i].tx = tx }

\* this step is the return of an Attest call on rid
AttestReturns(rid) == ret'.op = "Attest" /\ ret'.rid = rid

\* C2, first half: the Attestation a successful Attest call returns is the one
\* attached to the Resolution, and the transaction of the call that attached
\* it has written exactly one ledger record.
OneAttestationPerResolution ==
    /\ (ret.op = "Attest" /\ ret.err = None) =>
          /\ ret.rid \in Stored
          /\ ret.att # Nil
          /\ ret.att = resolutions[ret.rid].Attestation
    /\ \A rid \in Stored :
          resolutions[rid].Attestation # Nil =>
             Cardinality(WrittenBy(resolutions[rid].Attestation.TransactionHash)) = 1

\* C2, second half: an Attest call on a Resolution that already has its
\* Attestation returns that Attestation, sends no transaction and writes
\* nothing to the ledger.
SecondAttestIsNoOp ==
    \A rid \in Stored :
        (resolutions[rid].Attestation # Nil /\ AttestReturns(rid)) =>
            /\ ret'.err = None
            /\ ret'.att = resolutions[rid].Attestation
            /\ UNCHANGED << resolutions, mempool, receipts, ledgerVars >>

\* C2: calling Attest again on a Resolution whose Attest succeeded returns the
\* same Attestation and adds no ledger write to the one the first call made;
\* the calls are serialized by rs.mu.
C2_IdempotentAttest == []OneAttestationPerResolution /\ [][SecondAttestIsNoOp]_vars

\* an Attest call returned the Attestation of r1 after the Issue, verified by
\* the first call, had been updated: the return of a second call
C2_Witness ==
    /\ "r1" \in Stored
    /\ resolutions["r1"].Attestation # Nil
    /\ ret = AttestReturn("r1", None, resolutions["r1"].Attestation)
    /\ issues["i1"] # Nil
    /\ issues["i1"].Status = "investigating"

\* C3: the ledger receives at most one record for each Resolution, over any
\* sequence of Attest calls, failed and retried ones included.
C3_AtMostOneRecordPerResolution ==
    \A rid \in Stored : Cardinality(RecordsOf(rid)) <= 1

\* C4: (a) a Resolution turns on_chain only in the step in which an Attest call
\* on it returns successfully with a receipt of status 1; (b) a failed Attest
\* call leaves every Resolution as it was; (c) an on_chain Resolution stays
\* on_chain.
OnChainOnlyWhenConfirmed ==
    /\ \A rid \in DOMAIN resolutions' :
          (resolutions'[rid].Status = "on_chain"
              /\ (rid \in Stored => resolutions[rid].Status # "on_chain")) =>
             /\ rid \in Stored
             /\ mu # Nil
             /\ mu.rid = rid
             /\ mu.tx \in DOMAIN receipts
             /\ receipts[mu.tx].Status = 1
             /\ ret' = AttestReturn(rid, None, resolutions'[rid].Attestation)
    /\ (ret'.op = "Attest" /\ ret'.err # None) => resolutions' = resolutions
    /\ \A rid \in Stored :
          resolutions[rid].Status = "on_chain" =>
             /\ rid \in DOMAIN resolutions'
             /\ resolutions'[rid].Status = "on_chain"

C4_OnChainOnlyWhenConfirmed == [][OnChainOnlyWhenConfirmed]_vars

\* a Resolution is on_chain after an earlier Attest call on it had failed on a
\* reverted transaction
C4_Witness ==
    /\ \E rid \in Stored : resolutions[rid].Status = "on_chain"
    /\ \E tx \in DOMAIN receipts : receipts[tx].Status = 0

\* the order of the Issue statuses
StatusRank(status) ==
    CASE status = "resolved" -> 1
      [] status = "verified" -> 2
      [] OTHER -> 0

\* the step left under id an Issue as CreateIssue makes it: a new Issue
Recreated(id) ==
    /\ issues'[id].Status = "active"
    /\ issues'[id].Resolution = None
    /\ issues'[id].Attestation = Nil

\* C7: the status of an Issue never moves from resolved or verified back to an
\* earlier status, in any step that keeps the Issue (a CreateIssue that puts a
\* new Issue under the id is left out).
IssueStatusForward ==
    \A id \in IssueIds :
        (issues[id] # Nil /\ issues'[id] # Nil /\ ~ Recreated(id)) =>
            StatusRank(issues[id].Status) <= StatusRank(issues'[id].Status)

C7_IssueStatusForward == [][IssueStatusForward]_vars

\* C8: an Issue whose status is verified has an Attestation.
C8_VerifiedHasAttestation ==
    \A id \in IssueIds :
        (issues[id] # Nil /\ issues[id].Status = "verified") =>
            issues[id].Attestation # Nil

-----------------------------------------------------------------------------
(* The chain of custody on the ledger *)

SamePair(i, k) ==
    /\ attestations[i].exchange = attestations[k].exchange
    /\ attestations[i].issueCategory = attestations[k].issueCategory

\* the records written before record k for the same (exchange, category)
EarlierOfPair(k) == { i \in 0..(k - 1) : SamePair(i, k) }

LastOf(S) == CHOOSE i \in S : \A k \in S : k <= i

\* C1: each ledger record carries as previousHash the evidenceHash of the
\* record written last before it for the same (exchange, issue category), and
\* the zero hash if it is the first record of its pair.
C1_ChainLinkage ==
    \A k \in 0..(attestationCount - 1) :
        attestations[k].previousHash =
            IF EarlierOfPair(k) = {} THEN ZeroHash
            ELSE attestations[LastOf(EarlierOfPair(k))].evidenceHash

-----------------------------------------------------------------------------
(* Verification by resolution id *)

\* the last call was a Verify of a stored, attested Resolution, and the
\* ledger answered it
VerifiedAttested ==
    /\ ret.op = "Verify"
    /\ ret.err = None
    /\ ret.rid \in Stored
    /\ resolutions[ret.rid].Attestation # Nil

\* the Evidence of the Resolution rid hashes to the commitment of its
\* Attestation
EvidenceAsAttested(rid) ==
    HashEvidence(resolutions[rid].Evidence) = resolutions[rid].Attestation.EvidenceHash

\* C5: Verify by resolution id, the ledger reachable, of an attested
\* Resolution whose Evidence is the attested one returns verified = true and
\* hash_match = true.
C5_VerifyRoundTrip ==
    (VerifiedAttested /\ EvidenceAsAttested(ret.rid)) =>
        (ret.resp.Verified /\ ret.resp.HashMatch)

\* r2, whose record is not the first on the ledger, is verified against its
\* own unchanged Evidence
C5_Witness ==
    /\ VerifiedAttested
    /\ ret.rid = "r2"
    /\ EvidenceAsAttested("r2")
    /\ resolutions["r2"].Attestation.ID > 0
    /\ ret.resp.Verified

\* C6: Verify by resolution id of an attested Resolution whose Evidence no
\* longer hashes to the attested commitment returns hash_match = false,
\* whatever else the ledger holds.
C6_TamperDetected ==
    (VerifiedAttested /\ ~ EvidenceAsAttested(ret.rid)) => ~ ret.resp.HashMatch

-----------------------------------------------------------------------------
(* The Resolution Engine *)

ValidEvidence(e) ==
    /\ e.MeasurementStart <= e.MeasurementEnd
    /\ e.ComplaintsBefore >= 0
    /\ e.ComplaintsAfter >= 0

\* C9: no Resolution is stored for Evidence that measures from after its end
\* or counts a negative number of complaints; every stored Resolution has a
\* resolution window of at least 0.
C9_InvalidEvidenceRejected ==
    \A rid \in Stored :
        /\ ValidEvidence(resolutions[rid].Evidence)
        /\ resolutions[rid].ResolutionWindow >= 0

\* the default acceptance criteria: 0.70, 0.85, 7 days, sentiment not required
CriteriaHold(r) ==
    /\ r.Evidence.PercentageDecrease >= 700
    /\ r.Confidence >= 850
    /\ r.ResolutionWindow >= 7

\* C10: a Resolution is stored verified, with a verified-at stamp, exactly
\* when the acceptance criteria hold for it; otherwise it is stored pending
\* with no verified-at.
C10_VerifiedIffCriteria ==
    \A rid \in Stored :
        LET r == resolutions[rid]
        IN  IF CriteriaHold(r)
            THEN r.Status = "verified" /\ Len(r.VerifiedAt) = 1
            ELSE r.Status = "pending" /\ r.VerifiedAt = << >>

\* a Resolution stored verified on the edge of every criterion: percentage
\* 0.70, confidence 0.85, window 7 days, no sentiment shift
C10_Witness ==
    \E rid \in Stored :
        /\ resolutions[rid].Status = "verified"
        /\ resolutions[rid].Evidence.PercentageDecrease = 700
        /\ resolutions[rid].Confidence = 850
        /\ resolutions[rid].ResolutionWindow = 7
        /\ resolutions[rid].Evidence.SentimentShift = 0

-----------------------------------------------------------------------------
(* The Confidence Scorer *)

\* the Evidence of the scenario: 150 -> 22 complaints, 0.853, 0.3, three sources
ScenarioEvidence(e) ==
    /\ e.PercentageDecrease = 853
    /\ e.SentimentShift = 300
    /\ e.DataSources = ThreeSources

\* C11, as the code has it: for Evidence with percentage-decrease 0.853,
\* sentiment-shift 0.3 and three data sources the stored confidence is 0.93
\* (base 0.85 + 0.05 + 0.03), and with a window of at least 7 days the
\* Resolution is stored verified.
C11_ScenarioScore ==
    \A rid \in Stored :
        ScenarioEvidence(resolutions[rid].Evidence) =>
            /\ resolutions[rid].Confidence = 930
            /\ resolutions[rid].ResolutionWindow >= 7 =>
                   resolutions[rid].Status = "verified"

\* C11, as stated: the confidence of the scenario Evidence is 1.0, and with a
\* window of at least 7 days the Resolution is stored verified.
C11_ScenarioScoreClamped ==
    \A rid \in Stored :
        ScenarioEvidence(resolutions[rid].Evidence) =>
            /\ resolutions[rid].Confidence = 1000
            /\ resolutions[rid].ResolutionWindow >= 7 =>
                   resolutions[rid].Status = "verified"

\* the scenario Evidence, measured over exactly 7 days, is stored verified
C11_Witness ==
    \E rid \in Stored :
        /\ resolutions[rid].Evidence = GoodEvidence
        /\ resolutions[rid].ResolutionWindow = 7
        /\ resolutions[rid].Status = "verified"

TwoSources == << "youtube", "google" >>

\* Evidence on both sides of every step of the score
ScoreGrid ==
    { Evidence(150, 22, p, s, src, 0, 168) :
        p \in { -100, 0, 499, 500, 699, 700, 899, 900, 1000 },
        s \in { 200, 201 },
        src \in { TwoSources, ThreeSources } }

\* Resolutions scored for one Issue
NextScore ==
    \/ CreateIssue("i1", << "a", "bc" >>, 1)
    \/ /\ Cardinality(Stored) < MaxScored
       /\ \E e \in ScoreGrid : CreateResolution("i1", e)

SpecScore == Init /\ [][NextScore]_vars

\* e1 and e2 differ in nothing but the percentage-decrease
DifferOnlyInPct(e1, e2) == [ e1 EXCEPT !.PercentageDecrease = e2.PercentageDecrease ] = e2

\* C12: of two Resolutions whose Evidence differs only in percentage-decrease,
\* the one with the lower percentage has no higher confidence; and every
\* confidence lies in [0, 1].
C12_ConfidenceMonotonic ==
    /\ \A r1 \in Stored, r2 \in Stored :
          (/\ DifferOnlyInPct(resolutions[r1].Evidence, resolutions[r2].Evidence)
           /\ resolutions[r1].Evidence.PercentageDecrease
                  < resolutions[r2].Evidence.PercentageDecrease) =>
             resolutions[r1].Confidence <= resolutions[r2].Confidence
    /\ \A rid \in Stored :
          resolutions[rid].Confidence >= 0 /\ resolutions[rid].Confidence <= 1000

\* two Resolutions differing only in percentage-decrease, the higher one
\* scored higher and capped at 1.0
C12_Witness ==
    \E r1 \in Stored, r2 \in Stored :
        /\ DifferOnlyInPct(resolutions[r1].Evidence, resolutions[r2].Evidence)
        /\ resolutions[r1].Evidence.PercentageDecrease
               < resolutions[r2].Evidence.PercentageDecrease
        /\ resolutions[r1].Confidence < resolutions[r2].Confidence
        /\ resolutions[r2].Confidence = 1000

-----------------------------------------------------------------------------
(* A second Resolution for an Issue *)

\* this step stores a new Resolution for the Issue id, which already has one
SecondResolutionFor(id) ==
    /\ issues[id] # Nil
    /\ issues[id].Resolution # None
    /\ DOMAIN resolutions' # Stored
    /\ issues'[id] # issues[id]

\* C13: a CreateResolution for an Issue that already has a Resolution stores
\* one more Resolution under a new id, leaves every stored Resolution as it
\* was, and leaves the Issue referring to the Resolution it had.
SecondResolutionKeepsFirst ==
    \A id \in IssueIds :
        SecondResolutionFor(id) =>
            /\ Cardinality(DOMAIN resolutions') = Cardinality(Stored) + 1
            /\ \A rid \in Stored :
                  rid \in DOMAIN resolutions' /\ resolutions'[rid] = resolutions[rid]
            /\ issues'[id].Resolution = issues[id].Resolution

C13_SecondResolutionKeepsFirst == [][SecondResolutionKeepsFirst]_vars

-----------------------------------------------------------------------------
(* The Issue Registry *)

\* C14: a CreateIssue with an explicit id that is not in the registry stores
\* the Issue active with first-detected = last-updated; with an id that is in
\* the registry it fails and leaves the registry as it was.
CreateIssueChecksId ==
    \A id \in IssueIds, pair \in Pairs, count \in { 1, 2 } :
        CreateIssue(id, pair, count) =>
            IF issues[id] = Nil
            THEN /\ issues'[id].Status = "active"
                 /\ issues'[id].FirstDetected = issues'[id].LastUpdated
            ELSE issues' = issues

C14_CreateIssueChecksId == [][CreateIssueChecksId]_vars

\* C15: in every step that keeps an Issue, its complaint count and its
\* last-updated time do not decrease.
IssueCountersGrow ==
    \A id \in IssueIds :
        (issues[id] # Nil /\ issues'[id] # Nil /\ ~ Recreated(id)) =>
            /\ issues[id].ComplaintCount <= issues'[id].ComplaintCount
            /\ issues[id].LastUpdated <= issues'[id].LastUpdated

C15_IssueCountersGrow == [][IssueCountersGrow]_vars

\* an AttestResolution call has sent its transaction and waits for the receipt
AttestWaiting == mu # Nil /\ mu.tx \notin DOMAIN receipts

\* C16: while an Attest call waits for the ledger, an operation on another
\* record can run: here CreateIssue for the Issue i2.
C16_NoLockWhileWaiting ==
    AttestWaiting => ENABLED CreateIssue("i2", << "a", "bc" >>, 1)

-----------------------------------------------------------------------------
(* The chain of one pair, written by Attest *)

\* Resolutions of one Issue, attested one after the other; every transaction
\* is sent, mined and confirmed
NextChain ==
    \/ CreateIssue("i1", << "a", "bc" >>, 1)
    \/ /\ Cardinality(Stored) < MaxChain
       /\ \E i \in 1..Len(EvidencePool) : CreateResolution("i1", EvidencePool[i])
    \/ \E rid \in ResolutionIds(MaxChain) :
         /\ txCount < MaxChain
         /\ AttestResolution(rid, TRUE)
    \/ MineTx(TRUE)
    \/ AttestComplete(TRUE)

SpecChain == Init /\ [][NextChain]_vars

\* C17: no two ledger records of one (exchange, issue category) pair carry
\* the same previousHash.
C17_DistinctPreviousHash ==
    \A i \in 0..(attestationCount - 1), k \in 0..(attestationCount - 1) :
        (i # k /\ SamePair(i, k)) =>
            attestations[i].previousHash # attestations[k].previousHash

\* Attest calls of which some are cancelled while they wait for the receipt;
\* nothing else fails
NextCancel ==
    \/ \E pair \in Pairs : CreateIssue("i1", pair, 1)
    \/ /\ Cardinality(Stored) < MaxResolutions
       /\ \E i \in 1..Len(EvidencePool) : CreateResolution("i1", EvidencePool[i])
    \/ \E rid \in ResolutionIds(MaxResolutions) :
         /\ txCount < MaxTx
         /\ AttestResolution(rid, TRUE)
    \/ AttestAbort("context canceled")
    \/ MineTx(TRUE)
    \/ AttestComplete(TRUE)

SpecCancel == Init /\ [][NextCancel]_vars

\* C18: a Resolution has an Attestation exactly when its status is on_chain;
\* and, no Attest call being in flight, the ledger holds a record for the
\* Resolution exactly when the Resolution has an Attestation.
C18_CancelAllOrNothing ==
    \A rid \in Stored :
        /\ (resolutions[rid].Attestation # Nil) <=> (resolutions[rid].Status = "on_chain")
        /\ Unlocked =>
              ((RecordsOf(rid) # {}) <=> (resolutions[rid].Attestation # Nil))

-----------------------------------------------------------------------------
(* BlockchainHandler.HashEvidence: POST /api/blockchain/hash *)

HashReturn(status, e, hash) ==
    [ op |-> "Hash", status |-> status, evidence |-> e, hash |-> hash ]

\* the handler; bodyOk: the request body decodes as a ResolutionEvidence
HashEvidenceRequest(e, bodyOk) ==
    /\ ret' = IF ~ blockchain THEN HashReturn(503, Nil, << >>)
              ELSE IF ~ bodyOk THEN HashReturn(400, Nil, << >>)
              ELSE HashReturn(200, e, HashEvidence(e))
    /\ UNCHANGED << issues, resolutions, blockchain, mu, mempool, receipts,
                    ledgerVars, now >>

NextHash ==
    \E i \in 1..Len(HashGrid), bodyOk \in BOOLEAN : HashEvidenceRequest(HashGrid[i], bodyOk)

SpecHash == Init /\ [][NextHash]_vars

Range(f) == { f[i] : i \in DOMAIN f }

\* e1 and e2 are equal in every field but list the same data sources, in
\* whatever order
SameSources(e1, e2) ==
    /\ [ e1 EXCEPT !.DataSources = e2.DataSources ] = e2
    /\ Range(e1.DataSources) = Range(e2.DataSources)

\* C19: the commitment returned for an Evidence is the commitment of every
\* Evidence that differs from it only in the order of the data sources.
C19_HashIgnoresSourceOrder ==
    (ret.op = "Hash" /\ ret.status = 200) =>
        \A i \in 1..Len(HashGrid) :
            SameSources(ret.evidence, HashGrid[i]) =>
                HashEvidence(HashGrid[i]) = ret.hash

\* the measurement window is absent: both times are the zero time
MissingWindow(e) == e.MeasurementStart = 0 /\ e.MeasurementEnd = 0

\* C20: hashing Evidence without a measurement window fails and returns no
\* commitment.
C20_MissingFieldRejected ==
    (ret.op = "Hash" /\ ret.evidence # Nil /\ MissingWindow(ret.evidence)) =>
        (ret.status # 200 /\ ret.hash = << >>)

-----------------------------------------------------------------------------
(* The event log and the storage of the contract *)

\* the event log holds a ResolutionRecorded event with the fields of record k
EventFor(k) ==
    \E j \in 1..Len(events) :
        /\ events[j].name = "ResolutionRecorded"
        /\ events[j].attestationId = k
        /\ events[j].exchange = attestations[k].exchange
        /\ events[j].issueCategory = attestations[k].issueCategory
        /\ events[j].evidenceHash = attestations[k].evidenceHash
        /\ events[j].previousHash = attestations[k].previousHash
        /\ events[j].timestamp = attestations[k].timestamp
        /\ events[j].attestor = attestations[k].attestor

\* C22: for every record on the ledger an event was emitted that carries its
\* id, exchange, issue category, commitment, previous-hash, timestamp and
\* attestor.
C22_EveryWriteEmitsEvent ==
    \A k \in 0..(attestationCount - 1) : EventFor(k)

\* the records of the pair (exchange, issue category)
RecordsOfPair(pair) ==
    { k \in 0..(attestationCount - 1) :
        attestations[k].exchange = pair[1] /\ attestations[k].issueCategory = pair[2] }

\* C28: the latest commitment of each pair is the commitment of the last
\* record written for that pair, zero if there is none; and a non-zero
\* previousHash is the commitment of an earlier record of the same pair.
C28_ChainsIndependent ==
    /\ \A pair \in LedgerPairs :
          getLatestHash(Ledger, pair[1], pair[2]) =
              IF RecordsOfPair(pair) = {} THEN ZeroHash
              ELSE attestations[LastOf(RecordsOfPair(pair))].evidenceHash
    /\ \A k \in 0..(attestationCount - 1) :
          attestations[k].previousHash # ZeroHash =>
              \E i \in EarlierOfPair(k) :
                  attestations[i].evidenceHash = attestations[k].previousHash

\* the records are numbered 0..attestationCount-1, as many as were written,
\* and getAttestation fails from attestationCount on
LedgerCounted ==
    /\ DOMAIN attestations = 0..(attestationCount - 1)
    /\ Cardinality(DOMAIN recordOf) = attestationCount
    /\ \A id \in 0..(attestationCount + 1) :
          getAttestationReverts(Ledger, id) <=> id >= attestationCount

\* no step changes or removes a record, and the count never goes down
LedgerKept ==
    /\ attestationCount' >= attestationCount
    /\ \A k \in 0..(attestationCount - 1) :
          k \in DOMAIN attestations' /\ attestations'[k] = attestations[k]

\* C29: the ledger is append-only; each write takes the next id; the count
\* is the number of records written; getAttestation fails for id >= count.
C29_AppendOnly == []LedgerCounted /\ [][LedgerKept]_vars

\* a single write and a batch have filled the ledger to three records
C29_Witness ==
    /\ attestationCount = 3
    /\ \E j \in 1..Len(events) : events[j].name = "BatchRecorded"
    /\ \E j \in 1..Len(events) : events[j].name = "ResolutionRecorded"
    /\ getAttestationReverts(Ledger, 3)
    /\ ~ getAttestationReverts(Ledger, 2)

-----------------------------------------------------------------------------
(* What Verify and Attest report *)

\* C23: a Verify result that says on_chain carries the ledger record.
C23_NoErrorSwallowed ==
    (ret.op = "Verify" /\ ret.err = None /\ ret.resp.OnChain) =>
        ret.resp.Attestation # Nil

\* this step sends a transaction for the Resolution rid
SendsFor(rid) ==
    /\ Len(mempool') = Len(mempool) + 1
    /\ mempool'[Len(mempool')].rid = rid

\* C24: an Attest call sends a transaction for a Resolution, and a Resolution
\* turns on_chain, only if the status of the Resolution is verified.
AttestOnlyVerified ==
    \A rid \in Stored :
        (\/ SendsFor(rid)
         \/ /\ resolutions'[rid].Status = "on_chain"
            /\ resolutions[rid].Status # "on_chain") =>
            resolutions[rid].Status = "verified"

C24_AttestOnlyVerified == [][AttestOnlyVerified]_vars

\* C26: the Attestation of a Resolution carries the previousHash of its
\* ledger record; where that is zero, the empty string will do as well.
C26_AttestationCarriesPreviousHash ==
    \A rid \in Stored :
        resolutions[rid].Attestation # Nil =>
            LET previousHash == attestations[resolutions[rid].Attestation.ID].previousHash
            IN  IF previousHash = ZeroHash
                THEN resolutions[rid].Attestation.PreviousHash
                         \in { << >>, HexEncode(ZeroHash) }
                ELSE resolutions[rid].Attestation.PreviousHash = HexEncode(previousHash)

\* C27: the Attestation of an Issue is the Attestation of the Resolution the
\* Issue refers to.
C27_IssueAttestationIsCopy ==
    \A id \in IssueIds :
        (issues[id] # Nil /\ issues[id].Attestation # Nil) =>
            /\ issues[id].Resolution # None
            /\ resolutions[issues[id].Resolution].Attestation = issues[id].Attestation

-----------------------------------------------------------------------------
(* Verification by commitment *)

\* a third party's recordResolution, mined in a block stamped ts by the
\* chain's clock; the clock of the service's host is not read
ExternalRecordStamped(pair, h, ts) ==
    /\ SetLedger(recordResolution(Ledger, pair[1], pair[2], h, Stranger,
                                  ts, blockNumber + 1))
    /\ recordOf' = (attestationCount :> [ rid |-> None, tx |-> 0 ]) @@ recordOf
    /\ blockNumber' = blockNumber + 1
    /\ ret' = NoRet
    /\ UNCHANGED << issues, resolutions, blockchain, mu, mempool, receipts, now >>

\* a commitment whose last byte is zero
PaddedDigest == [ j \in 1..HashLen |-> IF j < HashLen THEN 1 ELSE 0 ]

\* commitments a third party records
StampedInputs == { Digest(1), Digest(2), PaddedDigest }

\* the evidence_hash of a verification request: 32 bytes, 33 bytes, 31 bytes
CommitmentInputs ==
    { HexEncode(Digest(1)), HexEncode(Digest(2)), HexEncode(Digest(3)),
      HexEncode(Digest(1) \o << 7 >>),
      HexEncode(SubSeq(Digest(1), 1, HashLen - 1)) }

\* third parties write, anyone asks for a commitment
NextCommitment ==
    \/ /\ attestationCount < MaxStamped
       /\ \E h \in StampedInputs, ts \in 0..MaxClock :
            ExternalRecordStamped(<< "a", "bc" >>, h, ts)
    \/ \E evidenceHash \in CommitmentInputs, callOk \in BOOLEAN, getOk \in BOOLEAN :
         VerifyByHash(evidenceHash, callOk, getOk)

SpecCommitment == InitAt(0) /\ [][NextCommitment]_vars

\* C21: a Verify result says timestamp_valid only if the timestamp of the
\* record it returns is not later than the clock of the service.
C21_TimestampChecked ==
    (ret.op = "Verify" /\ ret.err = None /\ ret.resp.TimestampValid) =>
        ret.resp.Attestation.BlockTimestamp <= now

\* C30: a Verify result says on_chain only if the commitment asked for is 32
\* bytes long and is the commitment of a record.
C30_ExactCommitmentOnly ==
    (ret.op = "Verify" /\ ret.err = None /\ ret.resp.OnChain) =>
        /\ Len(HexDecode(ret.hash)) = HashLen
        /\ \E k \in 0..(attestationCount - 1) :
              attestations[k].evidenceHash = HexDecode(ret.hash)

-----------------------------------------------------------------------------
(* The end of the wait for the receipt *)

\* the errors waitForReceipt returns without a receipt
WaitErrors == { "context canceled", "timeout waiting for transaction receipt" }

\* the select of waitForReceipt returns: the context is done, the timer of two
\* minutes has fired, or the poll has found the receipt
WaitEnds ==
    \/ \E err \in WaitErrors : AttestAbort(err)
    \/ AttestComplete(TRUE)

\* Attest calls on a chain that mines when it pleases, or never; the calls fail
\* only by giving up the wait
NextLive ==
    \/ \E pair \in Pairs : CreateIssue("i1", pair, 1)
    \/ /\ Cardinality(Stored) < MaxResolutions
       /\ \E i \in 1..Len(EvidencePool) : CreateResolution("i1", EvidencePool[i])
    \/ \E rid \in ResolutionIds(MaxResolutions) :
         /\ txCount < MaxTx
         /\ AttestResolution(rid, TRUE)
    \/ MineTx(TRUE)
    \/ WaitEnds

\* The timer channel, once it has fired, stays ready until it is received
\* from, and select picks among the ready cases at random: a wait that can
\* end does end.  Nothing obliges the chain to mine.
SpecLive == Init /\ [][NextLive]_vars /\ WF_vars(WaitEnds)

\* an Attest call that gave up the wait leaves Resolutions and Issues as they
\* were
GivingUpChangesNothing ==
    (ret'.op = "Attest" /\ ret'.err \in WaitErrors) =>
        /\ resolutions' = resolutions
        /\ issues' = issues
        /\ resolutions[ret'.rid].Attestation = Nil

\* C25: every Attest call that waits for a receipt returns, mined or not; a
\* call that returns the timeout or the context's error has changed no
\* Resolution and no Issue, and its Resolution has no Attestation.
C25_AttestReturns ==
    /\ (mu # Nil) ~> (mu = Nil)
    /\ [][GivingUpChangesNothing]_vars

\* the second Attest call for r1 returned its Attestation, the first one
\* having given up the wait: it is the second transaction that is attested
C25_Witness ==
    /\ mu = Nil
    /\ ret.op = "Attest"
    /\ ret.rid = "r1"
    /\ ret.err = None
    /\ ret.att # Nil
    /\ ret.att.TransactionHash = 2
    /\ resolutions["r1"].Status = "on_chain"

====
